---- MODULE Spec2Model ----
(***************************************************************************)
(* Symbolic differentiator: recursive-descent parser (Parser), expression  *)
(* tree nodes with eval/deriv (ConstNode, VarNode, BinaryNode, PowerNode,  *)
(* FuncNode) and the facade differentiate().                               *)
(*                                                                         *)
(* Nodes live in a heap (a sequence of node records); a NodePtr is an      *)
(* index into it, 0 being the null pointer.  make_shared appends a node.   *)
(* The input string is a sequence of one-character strings; currPos is     *)
(* 0-based as in the source, so inputString[currPos] is At(s, currPos).    *)
(***************************************************************************)
EXTENDS Integers, Sequences, FiniteSets, TLC

\* ------------------------------------------------------------------------
\* Bounds of the explored inputs
\* ------------------------------------------------------------------------
\* longest text built from arbitrary lexemes
MaxLexemes == 3
\* longest text built from operands and operators only
MaxOperatorLen == 5
\* largest expression tree written out as a fully parenthesised text
MaxTreeNodes == 4
\* largest numerator/denominator the evaluator tracks exactly
ExactCap == 1000
\* largest integer exponent the evaluator expands exactly
MaxExactExp == 4
\* threads calling the returned functions at the same time
MaxThreads == 2

\* ------------------------------------------------------------------------
\* <cctype> character classes ("C" locale)
\* ------------------------------------------------------------------------
isspace(c) == c \in {" ", "\t", "\n", "\r", "\f"}

isdigit(c) == c \in {"0", "1", "2", "3", "4", "5", "6", "7", "8", "9"}

isalpha(c) ==
    c \in {"a", "b", "c", "d", "e", "f", "g", "h", "i", "j", "k", "l", "m",
           "n", "o", "p", "q", "r", "s", "t", "u", "v", "w", "x", "y", "z",
           "A", "B", "C", "D", "E", "F", "G", "H", "I", "J", "K", "L", "M",
           "N", "O", "P", "Q", "R", "S", "T", "U", "V", "W", "X", "Y", "Z"}

\* inputString[currPos]
At(s, p) == s[p + 1]

\* ------------------------------------------------------------------------
\* Exact rationals <<numerator, denominator>> for ConstNode::value
\* ------------------------------------------------------------------------
Abs(n) == IF n < 0 THEN -n ELSE n

RECURSIVE Gcd(_, _)
Gcd(a, b) == IF b = 0 THEN a ELSE Gcd(b, a % b)

Rat(n, d) ==
    LET g == Gcd(Abs(n), Abs(d))
    IN  IF g = 0 THEN <<0, 1>> ELSE <<n \div g, d \div g>>

DigitVal(c) ==
    CASE c = "0" -> 0 [] c = "1" -> 1 [] c = "2" -> 2 [] c = "3" -> 3
      [] c = "4" -> 4 [] c = "5" -> 5 [] c = "6" -> 6 [] c = "7" -> 7
      [] c = "8" -> 8 [] c = "9" -> 9

\* length of the run of digits of num that starts at index i (1-based)
RECURSIVE DigitRun(_, _)
DigitRun(num, i) ==
    IF i <= Len(num) /\ isdigit(num[i]) THEN 1 + DigitRun(num, i + 1) ELSE 0

\* value of the digits num[i .. i+n-1], acc being the value read so far
RECURSIVE DigitsValue(_, _, _, _)
DigitsValue(num, i, n, acc) ==
    IF n = 0 THEN acc
    ELSE DigitsValue(num, i + 1, n - 1, acc * 10 + DigitVal(num[i]))

RECURSIVE Pow10(_)
Pow10(k) == IF k = 0 THEN 1 ELSE 10 * Pow10(k - 1)

\* std::stod on a run of digits and dots that starts with a digit: it
\* converts the longest prefix of the form digit+ [ '.' digit* ] and ignores
\* what follows ("1." is 1, "1.2.3" is 1.2).
stod(num) ==
    LET ni   == DigitRun(num, 1)
        int  == DigitsValue(num, 1, ni, 0)
        dot  == ni + 1 <= Len(num) /\ num[ni + 1] = "."
        nf   == IF dot THEN DigitRun(num, ni + 2) ELSE 0
        frac == DigitsValue(num, ni + 2, nf, 0)
    IN  Rat(int * Pow10(nf) + frac, Pow10(nf))

\* ------------------------------------------------------------------------
\* Nodes (ast.hpp).  Every record has all the fields; a field a variant
\* does not have is null (0), empty or zero.
\* ------------------------------------------------------------------------
Node(kind, value, op, left, right, base, exp, name, args) ==
    [kind |-> kind, value |-> value, op |-> op, left |-> left,
     right |-> right, base |-> base, exp |-> exp, name |-> name,
     args |-> args]

ConstNode(v) == Node("Const", v, "", 0, 0, 0, 0, <<>>, <<>>)

VarNode == Node("Var", <<0, 1>>, "", 0, 0, 0, 0, <<>>, <<>>)

BinaryNode(o, l, r) == Node("Binary", <<0, 1>>, o, l, r, 0, 0, <<>>, <<>>)

PowerNode(b, e) == Node("Power", <<0, 1>>, "", 0, 0, b, e, <<>>, <<>>)

FuncNode(nm, arg) == Node("Func", <<0, 1>>, "", 0, 0, 0, 0, nm, arg)

\* the names of the grammar's <func_name>
Sin == <<"s", "i", "n">>

Cos == <<"c", "o", "s">>

Tan == <<"t", "a", "n">>

Cot == <<"c", "o", "t">>

Log == <<"l", "o", "g">>

FuncNames == {Sin, Cos, Tan, Cot, Log}

\* ------------------------------------------------------------------------
\* Parser (parser.cpp).  Every parse function takes the input string, the
\* heap and the cursor and returns the heap, the cursor, the node built and
\* the exception thrown ("none" when it returned).  A function that goes on
\* after a nested call is split there: the second half takes the result of
\* the nested call.
\* ------------------------------------------------------------------------
Returned(h, p, n) == [heap |-> h, currPos |-> p, node |-> n, err |-> "none"]

Thrown(h, p, e) == [heap |-> h, currPos |-> p, node |-> 0, err |-> e]

\* return std::make_shared<T>(...) with the cursor at p
ReturnedNew(h, p, node) == Returned(Append(h, node), p, Len(h) + 1)

RECURSIVE skipWhitespace(_, _)
skipWhitespace(s, p) ==
    IF p < Len(s) /\ isspace(At(s, p)) THEN skipWhitespace(s, p + 1) ELSE p

\* the cursor after the loop of parser.cpp:88 (digits and dots)
RECURSIVE NumberEnd(_, _)
NumberEnd(s, p) ==
    IF p < Len(s) /\ (isdigit(At(s, p)) \/ At(s, p) = ".")
    THEN NumberEnd(s, p + 1) ELSE p

\* the cursor after the loop of parser.cpp:99 (letters)
RECURSIVE IdentifierEnd(_, _)
IdentifierEnd(s, p) ==
    IF p < Len(s) /\ isalpha(At(s, p)) THEN IdentifierEnd(s, p + 1) ELSE p

RECURSIVE parseExpression(_, _, _)
RECURSIVE ExpressionLoop(_, _, _, _)
RECURSIVE parseTerm(_, _, _)
RECURSIVE TermLoop(_, _, _, _)
RECURSIVE parseFactor(_, _, _)
RECURSIVE parseBasic(_, _, _)

\* parseBasic, function call: arg is the result of parseExpression
FunctionCallEnd(s, id, arg) ==
    IF arg.err # "none" THEN arg
    ELSE
        LET c == skipWhitespace(s, arg.currPos)
        IN  IF c >= Len(s) \/ At(s, c) # ")"
            THEN Thrown(arg.heap, c, "Missing closing ')' for function call")
            ELSE ReturnedNew(arg.heap, c + 1, FuncNode(id, <<arg.node>>))

\* parseBasic, identifier: id has been read and the whitespace after it
\* skipped, the cursor is p
Identifier(s, h, id, p) ==
    IF id = <<"x">> THEN ReturnedNew(h, p, VarNode)
    ELSE IF p < Len(s) /\ At(s, p) = "("
    THEN FunctionCallEnd(s, id, parseExpression(s, h, p + 1))
    ELSE Thrown(h, p, "Unknown identifier")

\* parseBasic, parenthesized sub-expression: node is the result of
\* parseExpression
SubExpressionEnd(s, node) ==
    IF node.err # "none" THEN node
    ELSE
        LET c == skipWhitespace(s, node.currPos)
        IN  IF c >= Len(s) \/ At(s, c) # ")"
            THEN Thrown(node.heap, c, "Missing closing ')' for sub-expression")
            ELSE Returned(node.heap, c + 1, node.node)

\* parseBasic after its skipWhitespace, the cursor is p
BasicAt(s, h, p) ==
    IF p < Len(s) /\ isdigit(At(s, p)) THEN
        ReturnedNew(h, NumberEnd(s, p),
                    ConstNode(stod(SubSeq(s, p + 1, NumberEnd(s, p)))))
    ELSE IF p < Len(s) /\ isalpha(At(s, p)) THEN
        Identifier(s, h, SubSeq(s, p + 1, IdentifierEnd(s, p)),
                   skipWhitespace(s, IdentifierEnd(s, p)))
    ELSE IF p < Len(s) /\ At(s, p) = "(" THEN
        SubExpressionEnd(s, parseExpression(s, h, p + 1))
    ELSE Thrown(h, p, "Unexpected char")

\* <basic> := number | 'x' | func_call | '(' <expression> ')'
parseBasic(s, h, p0) == BasicAt(s, h, skipWhitespace(s, p0))

\* parseFactor after the exponent: exp is the result of parseFactor
Exponent(s, node, exp) ==
    IF exp.err # "none" THEN exp
    ELSE ReturnedNew(exp.heap, skipWhitespace(s, exp.currPos),
                     PowerNode(node, exp.node))

\* parseFactor after the base: node is the result of parseBasic
FactorEnd(s, node) ==
    IF node.err # "none" THEN node
    ELSE
        LET p == skipWhitespace(s, node.currPos)
        IN  IF p < Len(s) /\ At(s, p) = "^"
            THEN Exponent(s, node.node, parseFactor(s, node.heap, p + 1))
            ELSE Returned(node.heap, p, node.node)

\* parseFactor as a loop over basics, the header's
\* <factor> ::= <basic> ( "^" <basic> )*
RECURSIVE FactorLoop(_, _, _, _)
FactorLoop(s, h, p, node) ==
    IF p < Len(s) /\ At(s, p) = "^" THEN
        LET exp == parseBasic(s, h, p + 1)
        IN  IF exp.err # "none" THEN exp
            ELSE FactorLoop(s, Append(exp.heap, PowerNode(node, exp.node)),
                            skipWhitespace(s, exp.currPos), Len(exp.heap) + 1)
    ELSE Returned(h, p, node)

parseFactor_Iterative(s, h, p0) ==
    LET node == parseBasic(s, h, p0)
    IN  IF node.err # "none" THEN node
        ELSE FactorLoop(s, node.heap, skipWhitespace(s, node.currPos), node.node)

\* <factor> := <primary> [ '^' <factor> ]
parseFactor(s, h, p0) == FactorEnd(s, parseBasic(s, h, p0))

\* one turn of the loop of parseTerm after its parseFactor
TermLoopBody(s, op, node, rightFactor) ==
    IF rightFactor.err # "none" THEN rightFactor
    ELSE TermLoop(s, Append(rightFactor.heap,
                            BinaryNode(op, node, rightFactor.node)),
                  skipWhitespace(s, rightFactor.currPos),
                  Len(rightFactor.heap) + 1)

\* the while loop of parseTerm; node is the tree built so far and p the
\* cursor after the skipWhitespace that precedes the loop test
TermLoop(s, h, p, node) ==
    IF p < Len(s) /\ (At(s, p) = "*" \/ At(s, p) = "/")
    THEN TermLoopBody(s, At(s, p), node, parseFactor(s, h, p + 1))
    ELSE Returned(h, p, node)

\* parseTerm after its first parseFactor
TermStart(s, node) ==
    IF node.err # "none" THEN node
    ELSE TermLoop(s, node.heap, skipWhitespace(s, node.currPos), node.node)

\* <term> := <factor> { ('*' | '/') <factor> }
parseTerm(s, h, p0) == TermStart(s, parseFactor(s, h, p0))

\* the loop body of parseExpression with the operands of the new node swapped
ExpressionLoopBody_Swapped(s, op, node, rightFactor) ==
    IF rightFactor.err # "none" THEN rightFactor
    ELSE ExpressionLoop(s, Append(rightFactor.heap,
                                  BinaryNode(op, rightFactor.node, node)),
                        skipWhitespace(s, rightFactor.currPos),
                        Len(rightFactor.heap) + 1)

\* one turn of the loop of parseExpression after its parseTerm
ExpressionLoopBody(s, op, node, rightFactor) ==
    IF rightFactor.err # "none" THEN rightFactor
    ELSE ExpressionLoop(s, Append(rightFactor.heap,
                                  BinaryNode(op, node, rightFactor.node)),
                        skipWhitespace(s, rightFactor.currPos),
                        Len(rightFactor.heap) + 1)

\* the while loop of parseExpression
ExpressionLoop(s, h, p, node) ==
    IF p < Len(s) /\ (At(s, p) = "+" \/ At(s, p) = "-")
    THEN ExpressionLoopBody(s, At(s, p), node, parseTerm(s, h, p + 1))
    ELSE Returned(h, p, node)

\* parseExpression after its first parseTerm
ExpressionStart(s, node) ==
    IF node.err # "none" THEN node
    ELSE ExpressionLoop(s, node.heap, skipWhitespace(s, node.currPos), node.node)

\* <expression> := <term> { ('+' | '-') <term> }
parseExpression(s, h, p0) == ExpressionStart(s, parseTerm(s, h, p0))

\* parse() without the end-of-string test
EndOfString_NoCheck(s, result) ==
    IF result.err # "none" THEN result
    ELSE Returned(result.heap, skipWhitespace(s, result.currPos), result.node)

\* parse() after parseExpression: skipWhitespace and the end-of-string test
EndOfString(s, result) ==
    IF result.err # "none" THEN result
    ELSE
        LET p == skipWhitespace(s, result.currPos)
        IN  IF p # Len(s) THEN Thrown(result.heap, p, "Unexpected")
            ELSE Returned(result.heap, p, result.node)

\* Parser::parse(): the whole expression, then end-of-string
parse(s, h, p0) == EndOfString(s, parseExpression(s, h, skipWhitespace(s, p0)))

ParserErrors ==
    {"Unexpected", "Unexpected char", "Unknown identifier",
     "Missing closing ')' for function call",
     "Missing closing ')' for sub-expression"}

\* ------------------------------------------------------------------------
\* Differentiation (ast.cpp).  deriv takes the heap and a node and returns
\* the heap with the new nodes appended, the root of the derivative and the
\* exception thrown.  leftToRight is the order in which the build evaluates
\* the arguments of one call (unspecified in C++): it decides which of two
\* sibling derivatives is built first.  A deriv that goes on after a nested
\* deriv is split there, as the parse functions are.
\* ------------------------------------------------------------------------
Built(h, p) == [heap |-> h, ptr |-> p, err |-> "none"]

Raised(h, e) == [heap |-> h, ptr |-> 0, err |-> e]

\* the nodes made after the heap h, the last one being the value returned
BuiltAll(h, nodes) == Built(h \o nodes, Len(h) + Len(nodes))

RECURSIVE deriv(_, _, _)

ConstNode_deriv(h, n, leftToRight) == BuiltAll(h, <<ConstNode(<<0, 1>>)>>)

VarNode_deriv(h, n, leftToRight) == BuiltAll(h, <<ConstNode(<<1, 1>>)>>)

\* BinaryNode::deriv rewriting a sum or difference in place
SumRuleEnd_InPlace(n, node, leftToRight, first, second) ==
    IF second.err # "none" THEN second
    ELSE Built([second.heap EXCEPT
                    ![n].left = IF leftToRight THEN first ELSE second.ptr,
                    ![n].right = IF leftToRight THEN second.ptr ELSE first],
               n)

\* (f +- g)' after both derivatives: first is the root of the one built
\* first, second the result of the other
SumRuleEnd(n, node, leftToRight, first, second) ==
    IF second.err # "none" THEN second
    ELSE BuiltAll(second.heap,
                  <<BinaryNode(node.op,
                               IF leftToRight THEN first ELSE second.ptr,
                               IF leftToRight THEN second.ptr ELSE first)>>)

\* (f +- g)' after the derivative built first
SumRule(n, node, leftToRight, first) ==
    IF first.err # "none" THEN first
    ELSE SumRuleEnd(n, node, leftToRight, first.ptr,
                    deriv(first.heap,
                          IF leftToRight THEN node.right ELSE node.left,
                          leftToRight))

\* BinaryNode::deriv with the product rule subtracting, like the numerator
\* of the quotient rule
ProductTermsEnd_ProductMinus(node, leftToRight, firstTerm, second) ==
    IF second.err # "none" THEN second
    ELSE
        LET b == Len(second.heap)
            secondTerm == IF leftToRight
                          THEN BinaryNode("*", node.left, second.ptr)
                          ELSE BinaryNode("*", second.ptr, node.right)
            dLeftTimesRight == IF leftToRight THEN firstTerm ELSE b + 1
            leftTimesDRight == IF leftToRight THEN b + 1 ELSE firstTerm
        IN  IF node.op = "*" THEN
                BuiltAll(second.heap,
                         <<secondTerm,
                           BinaryNode("-", dLeftTimesRight, leftTimesDRight)>>)
            ELSE
                BuiltAll(second.heap,
                         <<secondTerm,
                           BinaryNode("-", dLeftTimesRight, leftTimesDRight),
                           ConstNode(<<2, 1>>),
                           PowerNode(node.right, b + 3),
                           BinaryNode("/", b + 2, b + 4)>>)

\* (f * g)' and (f / g)' after both derivatives: firstTerm is the product
\* built first, second the result of the other derivative
ProductTermsEnd(node, leftToRight, firstTerm, second) ==
    IF second.err # "none" THEN second
    ELSE
        LET b == Len(second.heap)
            secondTerm == IF leftToRight
                          THEN BinaryNode("*", node.left, second.ptr)
                          ELSE BinaryNode("*", second.ptr, node.right)
            dLeftTimesRight == IF leftToRight THEN firstTerm ELSE b + 1
            leftTimesDRight == IF leftToRight THEN b + 1 ELSE firstTerm
        IN  IF node.op = "*" THEN
                BuiltAll(second.heap,
                         <<secondTerm,
                           BinaryNode("+", dLeftTimesRight, leftTimesDRight)>>)
            ELSE
                BuiltAll(second.heap,
                         <<secondTerm,
                           BinaryNode("-", dLeftTimesRight, leftTimesDRight),
                           ConstNode(<<2, 1>>),
                           PowerNode(node.right, b + 3),
                           BinaryNode("/", b + 2, b + 4)>>)

\* (f * g)' and (f / g)' after the derivative built first: its product
\* with the other operand is made, then the other derivative
ProductTerms(node, leftToRight, first) ==
    IF first.err # "none" THEN first
    ELSE ProductTermsEnd(node, leftToRight, Len(first.heap) + 1,
             deriv(Append(first.heap,
                          IF leftToRight
                          THEN BinaryNode("*", first.ptr, node.right)
                          ELSE BinaryNode("*", node.left, first.ptr)),
                   IF leftToRight THEN node.right ELSE node.left,
                   leftToRight))

\* linearity, product rule, quotient rule
BinaryNode_deriv(h, n, leftToRight) ==
    IF h[n].op = "+" \/ h[n].op = "-" THEN
        SumRule(n, h[n], leftToRight,
                deriv(h, IF leftToRight THEN h[n].left ELSE h[n].right,
                      leftToRight))
    ELSE IF h[n].op = "*" \/ h[n].op = "/" THEN
        ProductTerms(h[n], leftToRight,
                     deriv(h, IF leftToRight THEN h[n].left ELSE h[n].right,
                           leftToRight))
    ELSE Raised(h, "Unknown binary deriv op")

\* PowerNode::deriv summing term1 twice, as the comment of ast.cpp:286 reads
PowerRuleEnd_Term1Twice(node, uDeriv, vDeriv) ==
    IF vDeriv.err # "none" THEN vDeriv
    ELSE
        LET b == Len(vDeriv.heap)
            u == node.base
            v == node.exp
        IN  BuiltAll(vDeriv.heap,
                     <<FuncNode(Log, <<u>>),
                       BinaryNode("*", vDeriv.ptr, b + 1),
                       BinaryNode("/", uDeriv, u),
                       BinaryNode("*", v, b + 3),
                       BinaryNode("+", b + 2, b + 2),
                       PowerNode(u, v),
                       BinaryNode("*", b + 6, b + 5)>>)

\* d(u^v) after both derivatives: ln_u, term1, quotient, term2,
\* sumInsideBrackets, the PowerNode and the product returned
PowerRuleEnd(node, uDeriv, vDeriv) ==
    IF vDeriv.err # "none" THEN vDeriv
    ELSE
        LET b == Len(vDeriv.heap)
            u == node.base
            v == node.exp
        IN  BuiltAll(vDeriv.heap,
                     <<FuncNode(Log, <<u>>),
                       BinaryNode("*", vDeriv.ptr, b + 1),
                       BinaryNode("/", uDeriv, u),
                       BinaryNode("*", v, b + 3),
                       BinaryNode("+", b + 2, b + 4),
                       PowerNode(u, v),
                       BinaryNode("*", b + 6, b + 5)>>)

\* d(u^v) after uDeriv
PowerRule_vDeriv(node, leftToRight, uDeriv) ==
    IF uDeriv.err # "none" THEN uDeriv
    ELSE PowerRuleEnd(node, uDeriv.ptr, deriv(uDeriv.heap, node.exp, leftToRight))

\* d(u^v) = u^v * [v'*ln(u) + v*(u'/u)]
PowerNode_deriv(h, n, leftToRight) ==
    PowerRule_vDeriv(h[n], leftToRight, deriv(h, h[n].base, leftToRight))

\* FuncNode::deriv with the sign of the derivative of cos forgotten
ChainRule_NoSign(node, innerDerivative) ==
    IF innerDerivative.err # "none" THEN innerDerivative
    ELSE
        LET b == Len(innerDerivative.heap)
            name == node.name
            innerFunction == node.args[1]
            outerDerivative ==
                IF name = Sin THEN
                    <<FuncNode(Cos, <<innerFunction>>)>>
                ELSE IF name = Cos THEN
                    <<FuncNode(Sin, <<innerFunction>>)>>
                ELSE IF name = Tan THEN
                    <<FuncNode(Cos, <<innerFunction>>),
                      ConstNode(<<2, 1>>),
                      PowerNode(b + 1, b + 2),
                      ConstNode(<<1, 1>>),
                      BinaryNode("/", b + 4, b + 3)>>
                ELSE IF name = Cot THEN
                    <<FuncNode(Sin, <<innerFunction>>),
                      ConstNode(<<2, 1>>),
                      PowerNode(b + 1, b + 2),
                      ConstNode(<<1, 1>>),
                      BinaryNode("/", b + 4, b + 3),
                      ConstNode(<<-1, 1>>),
                      BinaryNode("*", b + 6, b + 5)>>
                ELSE IF name = Log THEN
                    <<ConstNode(<<1, 1>>),
                      BinaryNode("/", b + 1, innerFunction)>>
                ELSE <<>>
        IN  IF outerDerivative = <<>>
            THEN Raised(innerDerivative.heap, "Unknown func deriv")
            ELSE BuiltAll(innerDerivative.heap,
                          Append(outerDerivative,
                                 BinaryNode("*", b + Len(outerDerivative),
                                            innerDerivative.ptr)))

\* FuncNode::deriv with the log rule as the final else, without the throw
ChainRule_DefaultLog(node, innerDerivative) ==
    IF innerDerivative.err # "none" THEN innerDerivative
    ELSE
        LET b == Len(innerDerivative.heap)
            name == node.name
            innerFunction == node.args[1]
            outerDerivative ==
                IF name = Sin THEN
                    <<FuncNode(Cos, <<innerFunction>>)>>
                ELSE IF name = Cos THEN
                    <<FuncNode(Sin, <<innerFunction>>),
                      ConstNode(<<-1, 1>>),
                      BinaryNode("*", b + 2, b + 1)>>
                ELSE IF name = Tan THEN
                    <<FuncNode(Cos, <<innerFunction>>),
                      ConstNode(<<2, 1>>),
                      PowerNode(b + 1, b + 2),
                      ConstNode(<<1, 1>>),
                      BinaryNode("/", b + 4, b + 3)>>
                ELSE IF name = Cot THEN
                    <<FuncNode(Sin, <<innerFunction>>),
                      ConstNode(<<2, 1>>),
                      PowerNode(b + 1, b + 2),
                      ConstNode(<<1, 1>>),
                      BinaryNode("/", b + 4, b + 3),
                      ConstNode(<<-1, 1>>),
                      BinaryNode("*", b + 6, b + 5)>>
                ELSE
                    <<ConstNode(<<1, 1>>),
                      BinaryNode("/", b + 1, innerFunction)>>
        IN  BuiltAll(innerDerivative.heap,
                     Append(outerDerivative,
                            BinaryNode("*", b + Len(outerDerivative),
                                       innerDerivative.ptr)))

\* FuncNode::deriv after innerDerivative: the nodes of outerDerivative (the
\* last one is its root), then the product returned
ChainRule(node, innerDerivative) ==
    IF innerDerivative.err # "none" THEN innerDerivative
    ELSE
        LET b == Len(innerDerivative.heap)
            name == node.name
            innerFunction == node.args[1]
            outerDerivative ==
                IF name = Sin THEN
                    <<FuncNode(Cos, <<innerFunction>>)>>
                ELSE IF name = Cos THEN
                    <<FuncNode(Sin, <<innerFunction>>),
                      ConstNode(<<-1, 1>>),
                      BinaryNode("*", b + 2, b + 1)>>
                ELSE IF name = Tan THEN
                    <<FuncNode(Cos, <<innerFunction>>),
                      ConstNode(<<2, 1>>),
                      PowerNode(b + 1, b + 2),
                      ConstNode(<<1, 1>>),
                      BinaryNode("/", b + 4, b + 3)>>
                ELSE IF name = Cot THEN
                    <<FuncNode(Sin, <<innerFunction>>),
                      ConstNode(<<2, 1>>),
                      PowerNode(b + 1, b + 2),
                      ConstNode(<<1, 1>>),
                      BinaryNode("/", b + 4, b + 3),
                      ConstNode(<<-1, 1>>),
                      BinaryNode("*", b + 6, b + 5)>>
                ELSE IF name = Log THEN
                    <<ConstNode(<<1, 1>>),
                      BinaryNode("/", b + 1, innerFunction)>>
                ELSE <<>>
        IN  IF outerDerivative = <<>>
            THEN Raised(innerDerivative.heap, "Unknown func deriv")
            ELSE BuiltAll(innerDerivative.heap,
                          Append(outerDerivative,
                                 BinaryNode("*", b + Len(outerDerivative),
                                            innerDerivative.ptr)))

\* chain rule: outerDerivative(inner) * innerDerivative
FuncNode_deriv(h, n, leftToRight) ==
    ChainRule(h[n], deriv(h, h[n].args[1], leftToRight))

\* node -> deriv(): virtual dispatch on the node's class
deriv(h, n, leftToRight) ==
    CASE h[n].kind = "Const" -> ConstNode_deriv(h, n, leftToRight)
      [] h[n].kind = "Var" -> VarNode_deriv(h, n, leftToRight)
      [] h[n].kind = "Binary" -> BinaryNode_deriv(h, n, leftToRight)
      [] h[n].kind = "Power" -> PowerNode_deriv(h, n, leftToRight)
      [] h[n].kind = "Func" -> FuncNode_deriv(h, n, leftToRight)

\* ------------------------------------------------------------------------
\* Evaluation (ast.cpp).  A Complex is
\*   "num"   the exact value (re + im*i) / den, den > 0, in lowest terms;
\*   "fin"   a finite value the model does not track (log, sin, ... of an
\*           exact argument, or an exact value beyond ExactCap);
\*   "any"   a value the model does not track, possibly infinite or NaN;
\*   "error" no value: the exception err was thrown.
\* Floating-point rounding of long double is not modelled.
\* ------------------------------------------------------------------------
Value(k, re, im, den, err) ==
    [k |-> k, re |-> re, im |-> im, den |-> den, err |-> err]

Fin == Value("fin", 0, 0, 1, "")

Untracked == Value("any", 0, 0, 1, "")

Throw(e) == Value("error", 0, 0, 1, e)

\* (re + im*i) / den, brought to lowest terms
Complex(re, im, den) ==
    LET g == Gcd(Gcd(Abs(re), Abs(im)), Abs(den))
        sg == IF den < 0 THEN -g ELSE g
        r == re \div sg
        i == im \div sg
        d == den \div sg
    IN  IF Abs(r) > ExactCap \/ Abs(i) > ExactCap \/ d > ExactCap THEN Fin
        ELSE Value("num", r, i, d, "")

IsZero(a) == a.k = "num" /\ a.re = 0 /\ a.im = 0

Plus(a, b) ==
    IF a.k = "num" /\ b.k = "num"
    THEN Complex(a.re * b.den + b.re * a.den, a.im * b.den + b.im * a.den,
                 a.den * b.den)
    ELSE Untracked

Minus(a, b) ==
    IF a.k = "num" /\ b.k = "num"
    THEN Complex(a.re * b.den - b.re * a.den, a.im * b.den - b.im * a.den,
                 a.den * b.den)
    ELSE Untracked

Times(a, b) ==
    IF a.k = "num" /\ b.k = "num"
    THEN Complex(a.re * b.re - a.im * b.im, a.re * b.im + a.im * b.re,
                 a.den * b.den)
    ELSE IF (IsZero(a) /\ b.k = "fin") \/ (a.k = "fin" /\ IsZero(b))
    THEN Value("num", 0, 0, 1, "")
    ELSE Untracked

Divide(a, b) ==
    IF a.k = "num" /\ b.k = "num" /\ ~IsZero(b)
    THEN Complex((a.re * b.re + a.im * b.im) * b.den,
                 (a.im * b.re - a.re * b.im) * b.den,
                 a.den * (b.re * b.re + b.im * b.im))
    ELSE Untracked

RECURSIVE IntPower(_, _)
IntPower(u, n) == IF n = 0 THEN Value("num", 1, 0, 1, "")
                  ELSE Times(u, IntPower(u, n - 1))

\* std::pow(Complex, Complex): the principal value of u^v
Pow(u, v) ==
    IF u.k = "num" /\ v.k = "num" /\ ~IsZero(u) THEN
        IF v.im = 0 /\ v.den = 1 /\ v.re >= 0 /\ v.re <= MaxExactExp
        THEN IntPower(u, v.re)
        ELSE Fin
    ELSE Untracked

\* the <complex> functions of FuncNode::eval; exact only where the result
\* is an exact floating-point value
SinOf(v) == IF IsZero(v) THEN v ELSE IF v.k = "num" THEN Fin ELSE Untracked

CosOf(v) == IF IsZero(v) THEN Value("num", 1, 0, 1, "")
            ELSE IF v.k = "num" THEN Fin ELSE Untracked

TanOf(v) == IF IsZero(v) THEN v ELSE IF v.k = "num" THEN Fin ELSE Untracked

LogOf(v) ==
    IF v.k = "num" /\ v.re = v.den /\ v.im = 0 THEN Value("num", 0, 0, 1, "")
    ELSE IF v.k = "num" /\ ~IsZero(v) THEN Fin
    ELSE Untracked

RECURSIVE eval(_, _, _)

ConstNode_eval(h, n, x) == Value("num", h[n].value[1], 0, h[n].value[2], "")

VarNode_eval(h, n, x) == x

BinaryNode_eval(h, n, x) ==
    LET a == eval(h, h[n].left, x)
        b == eval(h, h[n].right, x)
        op == h[n].op
    IN  IF a.k = "error" THEN a
        ELSE IF b.k = "error" THEN b
        ELSE IF op = "+" THEN Plus(a, b)
        ELSE IF op = "-" THEN Minus(a, b)
        ELSE IF op = "*" THEN Times(a, b)
        ELSE IF op = "/" THEN Divide(a, b)
        ELSE Throw("Unknown binary op")

PowerNode_eval(h, n, x) ==
    LET baseVal == eval(h, h[n].base, x)
        expVal == eval(h, h[n].exp, x)
    IN  IF baseVal.k = "error" THEN baseVal
        ELSE IF expVal.k = "error" THEN expVal
        ELSE Pow(baseVal, expVal)

FuncNode_eval(h, n, x) ==
    LET v == eval(h, h[n].args[1], x)
        name == h[n].name
    IN  IF v.k = "error" THEN v
        ELSE IF name = Sin THEN SinOf(v)
        ELSE IF name = Cos THEN CosOf(v)
        ELSE IF name = Tan THEN TanOf(v)
        ELSE IF name = Cot THEN Divide(Value("num", 1, 0, 1, ""), TanOf(v))
        ELSE IF name = Log THEN LogOf(v)
        ELSE Throw("Unknown func")

\* node -> eval(x): virtual dispatch on the node's class
eval(h, n, x) ==
    CASE h[n].kind = "Const" -> ConstNode_eval(h, n, x)
      [] h[n].kind = "Var" -> VarNode_eval(h, n, x)
      [] h[n].kind = "Binary" -> BinaryNode_eval(h, n, x)
      [] h[n].kind = "Power" -> PowerNode_eval(h, n, x)
      [] h[n].kind = "Func" -> FuncNode_eval(h, n, x)

\* ------------------------------------------------------------------------
\* The expression a node denotes: the tree below it, without addresses
\* ------------------------------------------------------------------------
Tree(kind, value, op, name, kids) ==
    [kind |-> kind, value |-> value, op |-> op, name |-> name, kids |-> kids]

Constant(v) == Tree("Const", v, "", <<>>, <<>>)

Variable == Tree("Var", <<0, 1>>, "", <<>>, <<>>)

BinaryOp(op, l, r) == Tree("Binary", <<0, 1>>, op, <<>>, <<l, r>>)

Power(b, e) == Tree("Power", <<0, 1>>, "", <<>>, <<b, e>>)

FunctionCall(name, a) == Tree("Func", <<0, 1>>, "", name, <<a>>)

RECURSIVE TreeOf(_, _)
TreeOf(h, n) ==
    CASE h[n].kind = "Const" -> Constant(h[n].value)
      [] h[n].kind = "Var" -> Variable
      [] h[n].kind = "Binary" ->
            BinaryOp(h[n].op, TreeOf(h, h[n].left), TreeOf(h, h[n].right))
      [] h[n].kind = "Power" ->
            Power(TreeOf(h, h[n].base), TreeOf(h, h[n].exp))
      [] h[n].kind = "Func" -> FunctionCall(h[n].name, TreeOf(h, h[n].args[1]))

\* the nodes reachable from n, n included
RECURSIVE Reachable(_, _)
Reachable(h, n) ==
    {n} \cup
    CASE h[n].kind = "Binary" -> Reachable(h, h[n].left) \cup Reachable(h, h[n].right)
      [] h[n].kind = "Power" -> Reachable(h, h[n].base) \cup Reachable(h, h[n].exp)
      [] h[n].kind = "Func" -> Reachable(h, h[n].args[1])
      [] OTHER -> {}

\* ------------------------------------------------------------------------
\* Input texts
\* ------------------------------------------------------------------------
Foo == <<"f", "o", "o">>

Lexemes ==
    {<<"x">>, <<"2">>, <<".">>, Sin, Log, Foo, <<"(">>, <<")">>,
     <<"+">>, <<"-">>, <<"*">>, <<"/">>, <<"^">>, <<" ">>}

OperatorLexemes ==
    {<<"x">>, <<"2">>, <<"+">>, <<"-">>, <<"*">>, <<"/">>, <<"^">>}

RECURSIVE Flatten(_)
Flatten(ls) == IF ls = <<>> THEN <<>> ELSE Head(ls) \o Flatten(Tail(ls))

\* every text made of at most n lexemes of L
TextsOver(L, n) == {Flatten(ls) : ls \in UNION {[1..k -> L] : k \in 0..n}}

\* fully parenthesised texts of the expressions with exactly n nodes
RECURSIVE ExpressionTexts(_)
ExpressionTexts(n) ==
    IF n = 1 THEN {<<"x">>, <<"2">>}
    ELSE {nm \o <<"(">> \o a \o <<")">> :
              nm \in FuncNames \cup {Foo}, a \in ExpressionTexts(n - 1)}
         \cup UNION {
              {<<"(">> \o l \o <<op>> \o r \o <<")">> :
                   op \in {"+", "-", "*", "/", "^"},
                   l \in ExpressionTexts(k), r \in ExpressionTexts(n - 1 - k)} :
              k \in 1..(n - 2)}

\* the texts of the documentation: the header's example and test list, and
\* the scenarios of the specification
SampleTexts ==
    {<<"2", " ", "*", " ", "x", "^", "3">>,
     <<"2", "^", "3", "^", "2">>,
     <<"2", "^", "(", "3", "^", "2", ")">>,
     <<"s", "i", "n", "(", "x", ")">>,
     <<"l", "o", "g", "(", "x", ")">>,
     <<"x", "^", "x">>,
     <<"x", "^", "2", " ", "+", " ", "3", "*", "x">>,
     <<"2", " ", "+">>,
     <<"f", "o", "o", "(", "x", ")">>,
     <<"(", "1", "+", "2">>,
     <<"x", " ", "-", " ", "2", " ", "+", " ", "x", " ", "-", " ", "3">>,
     <<"x", "/", "2", "*", "x", "/", "3">>,
     <<"1", ".", "5", "*", "x", " ">>,
     <<"1", ".", "2", ".", "3">>}

Texts ==
    TextsOver(Lexemes, MaxLexemes)
    \cup TextsOver(OperatorLexemes, MaxOperatorLen)
    \cup UNION {ExpressionTexts(n) : n \in 1..MaxTreeNodes}
    \cup SampleTexts

\* the points the returned functions are called at: 2+2i, 0 and 1
Points ==
    {Value("num", 2, 2, 1, ""), Value("num", 0, 0, 1, ""),
     Value("num", 1, 0, 1, "")}

\* ------------------------------------------------------------------------
\* differentiate(mathExpr) and the calls of the functions it returns
\* ------------------------------------------------------------------------
VARIABLES
    inputString,            \* Parser::inputString
    currPos,                \* Parser::currPos
    heap,                   \* the nodes alive
    pc,                     \* where differentiate() is
    error,                  \* the exception that left differentiate()
    originalTree,
    firstDerivativeTree,
    secondDerivativeTree,
    leftToRight,            \* the build's order of argument evaluation
    functions,              \* the tuple returned: the tree each Func captured
    lastCall,               \* the last call of a returned function
    callLog,                \* the calls differentiate() has made
    threads,                \* the calls of the returned functions in progress
    frames                  \* the activations of the parse functions

vars ==
    <<inputString, currPos, heap, pc, error, originalTree,
      firstDerivativeTree, secondDerivativeTree, leftToRight, functions,
      lastCall, callLog, threads, frames>>

\* the threads that call the returned functions
Threads == 1..MaxThreads

\* a thread that is not inside a call
Idle ==
    [state |-> "idle", fn |-> 0, x |-> Value("num", 0, 0, 1, ""),
     stack |-> <<>>, result |-> Value("num", 0, 0, 1, "")]

NoCall == [fn |-> 0, x |-> Value("num", 0, 0, 1, ""), value |-> Value("num", 0, 0, 1, "")]

\* Parser parser(mathExpr)
Init ==
    /\ inputString \in Texts
    /\ currPos = 0
    /\ heap = <<>>
    /\ pc = "start"
    /\ error = "none"
    /\ originalTree = 0
    /\ firstDerivativeTree = 0
    /\ secondDerivativeTree = 0
    /\ leftToRight = TRUE
    /\ functions = <<>>
    /\ lastCall = NoCall
    /\ callLog = <<>>
    /\ threads = [t \in Threads |-> Idle]
    /\ frames = <<>>

\* an exception leaves differentiate(): every local is destroyed
Unwind(e) ==
    /\ pc' = "failed"
    /\ error' = e
    /\ heap' = <<>>
    /\ originalTree' = 0
    /\ firstDerivativeTree' = 0
    /\ secondDerivativeTree' = 0
    /\ UNCHANGED <<inputString, functions, lastCall, threads>>

\* NodePtr originalTree = parser.parse();
Parse ==
    /\ pc = "start"
    /\ LET r == parse(inputString, heap, currPos)
       IN  /\ r.err = "none"
           /\ heap' = r.heap
           /\ currPos' = r.currPos
           /\ originalTree' = r.node
    /\ pc' = "parsed"
    /\ callLog' = Append(callLog, <<"parse", 0>>)
    /\ UNCHANGED <<inputString, error, firstDerivativeTree,
                   secondDerivativeTree, leftToRight, functions, lastCall,
                   threads, frames>>

ParseThrows ==
    /\ pc = "start"
    /\ LET r == parse(inputString, heap, currPos)
       IN  /\ r.err # "none"
           /\ currPos' = r.currPos
           /\ Unwind(r.err)
    /\ callLog' = Append(callLog, <<"parse", 0>>)
    /\ UNCHANGED <<leftToRight, frames>>

\* NodePtr firstDerivativeTree = originalTree -> deriv();
FirstDerivative ==
    /\ pc = "parsed"
    /\ \E order \in BOOLEAN :
          LET d == deriv(heap, originalTree, order)
          IN  /\ d.err = "none"
              /\ heap' = d.heap
              /\ firstDerivativeTree' = d.ptr
              /\ leftToRight' = order
    /\ pc' = "derived1"
    /\ callLog' = Append(callLog, <<"deriv", originalTree>>)
    /\ UNCHANGED <<inputString, currPos, error, originalTree,
                   secondDerivativeTree, functions, lastCall, threads,
                   frames>>

\* NodePtr secondDerivativeTree = firstDerivativeTree -> deriv();
SecondDerivative ==
    /\ pc = "derived1"
    /\ LET d == deriv(heap, firstDerivativeTree, leftToRight)
       IN  /\ d.err = "none"
           /\ heap' = d.heap
           /\ secondDerivativeTree' = d.ptr
    /\ pc' = "derived2"
    /\ callLog' = Append(callLog, <<"deriv", firstDerivativeTree>>)
    /\ UNCHANGED <<inputString, currPos, error, originalTree,
                   firstDerivativeTree, leftToRight, functions, lastCall,
                   threads, frames>>

\* one of the two deriv() calls throws
DerivThrows ==
    /\ pc \in {"parsed", "derived1"}
    /\ LET tree == IF pc = "parsed" THEN originalTree ELSE firstDerivativeTree
       IN  /\ \E order \in (IF pc = "parsed" THEN BOOLEAN ELSE {leftToRight}) :
                 LET d == deriv(heap, tree, order)
                 IN  /\ d.err # "none"
                     /\ leftToRight' = order
                     /\ Unwind(d.err)
           /\ callLog' = Append(callLog, <<"deriv", tree>>)
    /\ UNCHANGED <<currPos, frames>>

\* return std::make_tuple(f, f1, f2);
Return ==
    /\ pc = "derived2"
    /\ pc' = "returned"
    /\ functions' = <<originalTree, firstDerivativeTree, secondDerivativeTree>>
    /\ UNCHANGED <<inputString, currPos, heap, error, originalTree,
                   firstDerivativeTree, secondDerivativeTree, leftToRight,
                   lastCall, callLog, threads, frames>>

\* std::get<fn-1>(result)(x)
Call ==
    /\ pc = "returned"
    /\ \E fn \in 1..3, x \in Points :
          lastCall' = [fn |-> fn, x |-> x, value |-> eval(heap, functions[fn], x)]
    /\ UNCHANGED <<inputString, currPos, heap, pc, error, originalTree,
                   firstDerivativeTree, secondDerivativeTree, leftToRight,
                   functions, callLog, threads, frames>>

Next ==
    \/ Parse
    \/ ParseThrows
    \/ FirstDerivative
    \/ SecondDerivative
    \/ DerivThrows
    \/ Return
    \/ Call

Spec == Init /\ [][Next]_vars

\* ------------------------------------------------------------------------
\* The returned functions called from several threads.  A call runs eval()
\* one node at a time: the stack of a thread holds one frame per eval() it is
\* inside, with the values of the operands evaluated so far.
\* ------------------------------------------------------------------------
\* the activation of node -> eval(x)
Frame(n) == [node |-> n, vals |-> <<>>]

\* the nodes a node's eval() evaluates, in the order of its statements
Operands(node) ==
    CASE node.kind = "Const" -> <<>>
      [] node.kind = "Var" -> <<>>
      [] node.kind = "Binary" -> <<node.left, node.right>>
      [] node.kind = "Power" -> <<node.base, node.exp>>
      [] node.kind = "Func" -> <<node.args[1]>>

\* what a node's eval() returns or throws once its operands are evaluated
Apply(node, vals, x) ==
    CASE node.kind = "Const" ->
             Value("num", node.value[1], 0, node.value[2], "")
      [] node.kind = "Var" -> x
      [] node.kind = "Binary" ->
             IF node.op = "+" THEN Plus(vals[1], vals[2])
             ELSE IF node.op = "-" THEN Minus(vals[1], vals[2])
             ELSE IF node.op = "*" THEN Times(vals[1], vals[2])
             ELSE IF node.op = "/" THEN Divide(vals[1], vals[2])
             ELSE Throw("Unknown binary op")
      [] node.kind = "Power" -> Pow(vals[1], vals[2])
      [] node.kind = "Func" ->
             IF node.name = Sin THEN SinOf(vals[1])
             ELSE IF node.name = Cos THEN CosOf(vals[1])
             ELSE IF node.name = Tan THEN TanOf(vals[1])
             ELSE IF node.name = Cot
             THEN Divide(Value("num", 1, 0, 1, ""), TanOf(vals[1]))
             ELSE IF node.name = Log THEN LogOf(vals[1])
             ELSE Throw("Unknown func")

\* the value v leaves the innermost eval() of thread th: an exception or the
\* return of the outermost eval() ends the call, any other return hands v to
\* the eval() below
Leave(th, v) ==
    IF v.k = "error" \/ Len(th.stack) = 1
    THEN [th EXCEPT !.state = "done", !.stack = <<>>, !.result = v]
    ELSE [th EXCEPT
              !.stack = SubSeq(th.stack, 1, Len(th.stack) - 2) \o
                        <<[th.stack[Len(th.stack) - 1] EXCEPT
                               !.vals = Append(@, v)]>>]

\* eval() keeping the argument in the VarNode it reaches
EvalStep_KeepsArgument(h, th) ==
    LET top == th.stack[Len(th.stack)]
        node == h[top.node]
    IN  IF Len(top.vals) < Len(Operands(node))
        THEN [heap |-> h,
              thread |-> [th EXCEPT !.stack =
                              Append(@, Frame(Operands(node)[Len(top.vals) + 1]))]]
        ELSE [heap |-> IF node.kind = "Var"
                       THEN [h EXCEPT ![top.node].value = <<th.x.re, th.x.den>>]
                       ELSE h,
              thread |-> Leave(th, Apply(node, top.vals, th.x))]

\* one step of the innermost eval() of thread th: it enters the eval() of
\* its next operand, or computes its value from the operands' values.  The
\* eval() methods are const and assign to no member: the heap is returned as
\* it was read.
EvalStep(h, th) ==
    LET top == th.stack[Len(th.stack)]
        node == h[top.node]
    IN  IF Len(top.vals) < Len(Operands(node))
        THEN [heap |-> h,
              thread |-> [th EXCEPT !.stack =
                              Append(@, Frame(Operands(node)[Len(top.vals) + 1]))]]
        ELSE [heap |-> h,
              thread |-> Leave(th, Apply(node, top.vals, th.x))]

\* the points the threads call the returned functions at: 2+2i and 1
ThreadPoints == {Value("num", 2, 2, 1, ""), Value("num", 1, 0, 1, "")}

\* a thread calls std::get<fn-1>(result)(x)
Invoke ==
    /\ pc = "returned"
    /\ \E t \in Threads, fn \in 1..3, x \in ThreadPoints :
          /\ threads[t].state # "running"
          /\ threads' = [threads EXCEPT ![t] =
                 [state |-> "running", fn |-> fn, x |-> x,
                  stack |-> <<Frame(functions[fn])>>,
                  result |-> Value("num", 0, 0, 1, "")]]
    /\ UNCHANGED <<inputString, currPos, heap, pc, error, originalTree,
                   firstDerivativeTree, secondDerivativeTree, leftToRight,
                   functions, lastCall, callLog, frames>>

\* a thread inside a call takes its next step
Evaluate ==
    /\ pc = "returned"
    /\ \E t \in Threads :
          /\ threads[t].state = "running"
          /\ heap' = EvalStep(heap, threads[t]).heap
          /\ threads' = [threads EXCEPT ![t] = EvalStep(heap, threads[t]).thread]
    /\ UNCHANGED <<inputString, currPos, pc, error, originalTree,
                   firstDerivativeTree, secondDerivativeTree, leftToRight,
                   functions, lastCall, callLog, frames>>

\* the texts differentiated before the threads start
ThreadTexts ==
    {<<"x", "*", "x">>, <<"s", "i", "n", "(", "x", ")">>, <<"x", "^", "2">>}

ThreadsInit == Init /\ inputString \in ThreadTexts

ThreadsNext ==
    \/ Parse
    \/ FirstDerivative
    \/ SecondDerivative
    \/ Return
    \/ Invoke
    \/ Evaluate

SpecThreads == ThreadsInit /\ [][ThreadsNext]_vars

\* ------------------------------------------------------------------------
\* The parser one call at a time.  frames is the call stack of the parse
\* functions: each frame holds the function, the statement it resumes at
\* when its callee returns, its locals, the value its callee returned and
\* the cursor at its entry.  A step runs the innermost function up to its
\* next call, return or throw.
\* ------------------------------------------------------------------------
NewFrame(fn, p) ==
    [fn |-> fn, at |-> "start", node |-> 0, op |-> "", id |-> <<>>,
     ret |-> 0, entry |-> p]

\* the innermost function, left as the frame top, calls fn with the cursor at p
Called(h, p, fr, top, fn) ==
    [heap |-> h, currPos |-> p,
     frames |-> Append([fr EXCEPT ![Len(fr)] = top], NewFrame(fn, p)),
     node |-> 0, err |-> "none"]

\* the innermost function returns n
Return_To(h, p, fr, n) ==
    IF Len(fr) = 1
    THEN [heap |-> h, currPos |-> p, frames |-> <<>>, node |-> n, err |-> "none"]
    ELSE [heap |-> h, currPos |-> p,
          frames |-> [SubSeq(fr, 1, Len(fr) - 1) EXCEPT ![Len(fr) - 1].ret = n],
          node |-> 0, err |-> "none"]

\* the innermost function throws: the exception leaves every parse function
Throw_Out(h, p, e) ==
    [heap |-> h, currPos |-> p, frames |-> <<>>, node |-> 0, err |-> e]

\* Parser::parse()
parse_step(s, h, p, fr) ==
    LET top == fr[Len(fr)]
        q == skipWhitespace(s, p)
    IN  IF top.at = "start"
        THEN Called(h, q, fr, [top EXCEPT !.at = "result"], "parseExpression")
        ELSE IF q # Len(s) THEN Throw_Out(h, q, "Unexpected")
        ELSE Return_To(h, q, fr, top.ret)

\* Parser::parseExpression() and Parser::parseTerm(): lower is the function
\* of the operands and ops the operators of the loop
Loop_step(s, h, p, fr, lower, ops) ==
    LET top == fr[Len(fr)]
        h1 == IF top.at = "rightFactor"
              THEN Append(h, BinaryNode(top.op, top.node, top.ret)) ELSE h
        node == IF top.at = "rightFactor" THEN Len(h) + 1 ELSE top.ret
        q == skipWhitespace(s, p)
    IN  IF top.at = "start"
        THEN Called(h, p, fr, [top EXCEPT !.at = "node"], lower)
        ELSE IF q < Len(s) /\ At(s, q) \in ops
        THEN Called(h1, q + 1, fr,
                    [top EXCEPT !.at = "rightFactor", !.node = node,
                                !.op = At(s, q)],
                    lower)
        ELSE Return_To(h1, q, fr, node)

parseExpression_step(s, h, p, fr) ==
    Loop_step(s, h, p, fr, "parseTerm", {"+", "-"})

parseTerm_step(s, h, p, fr) ==
    Loop_step(s, h, p, fr, "parseFactor", {"*", "/"})

\* Parser::parseFactor()
parseFactor_step(s, h, p, fr) ==
    LET top == fr[Len(fr)]
        q == skipWhitespace(s, p)
    IN  IF top.at = "start"
        THEN Called(h, p, fr, [top EXCEPT !.at = "node"], "parseBasic")
        ELSE IF top.at = "node" THEN
            IF q < Len(s) /\ At(s, q) = "^"
            THEN Called(h, q + 1, fr,
                        [top EXCEPT !.at = "exp", !.node = top.ret],
                        "parseFactor")
            ELSE Return_To(h, q, fr, top.ret)
        ELSE Return_To(Append(h, PowerNode(top.node, top.ret)), q, fr,
                       Len(h) + 1)

\* parseBasic at '(' with the '(' left where it is
SubExpression_NotConsumed(h, p, fr, top) ==
    Called(h, p, fr, [top EXCEPT !.at = "node"], "parseExpression")

\* parseBasic at the '(' of a sub-expression, the cursor p being on it
SubExpression(h, p, fr, top) ==
    Called(h, p + 1, fr, [top EXCEPT !.at = "node"], "parseExpression")

\* Parser::parseBasic()
parseBasic_step(s, h, p, fr) ==
    LET top == fr[Len(fr)]
        q == skipWhitespace(s, p)
        id == SubSeq(s, q + 1, IdentifierEnd(s, q))
        r == skipWhitespace(s, IdentifierEnd(s, q))
    IN  IF top.at = "start" THEN
            IF q < Len(s) /\ isdigit(At(s, q)) THEN
                Return_To(Append(h, ConstNode(stod(SubSeq(s, q + 1,
                                                          NumberEnd(s, q))))),
                          NumberEnd(s, q), fr, Len(h) + 1)
            ELSE IF q < Len(s) /\ isalpha(At(s, q)) THEN
                IF id = <<"x">> THEN Return_To(Append(h, VarNode), r, fr, Len(h) + 1)
                ELSE IF r < Len(s) /\ At(s, r) = "("
                THEN Called(h, r + 1, fr, [top EXCEPT !.at = "arg", !.id = id],
                            "parseExpression")
                ELSE Throw_Out(h, r, "Unknown identifier")
            ELSE IF q < Len(s) /\ At(s, q) = "(" THEN SubExpression(h, q, fr, top)
            ELSE Throw_Out(h, q, "Unexpected char")
        ELSE IF top.at = "arg" THEN
            IF q >= Len(s) \/ At(s, q) # ")"
            THEN Throw_Out(h, q, "Missing closing ')' for function call")
            ELSE Return_To(Append(h, FuncNode(top.id, <<top.ret>>)), q + 1, fr,
                           Len(h) + 1)
        ELSE
            IF q >= Len(s) \/ At(s, q) # ")"
            THEN Throw_Out(h, q, "Missing closing ')' for sub-expression")
            ELSE Return_To(h, q + 1, fr, top.ret)

\* the state after a step of the parser: r is what the step left
Resume(r) ==
    /\ currPos' = r.currPos
    /\ frames' = r.frames
    /\ IF r.err # "none" THEN Unwind(r.err)
       ELSE /\ heap' = r.heap
            /\ pc' = IF r.frames = <<>> THEN "parsed" ELSE pc
            /\ originalTree' = IF r.frames = <<>> THEN r.node ELSE originalTree
            /\ UNCHANGED <<inputString, error, firstDerivativeTree,
                           secondDerivativeTree, functions, lastCall, threads>>
    /\ UNCHANGED <<leftToRight, callLog>>

\* the innermost function is fn
Inside(fn) ==
    /\ pc = "parsing"
    /\ frames # <<>>
    /\ frames[Len(frames)].fn = fn

\* differentiate() calls parser.parse()
EnterParse ==
    /\ pc = "start"
    /\ pc' = "parsing"
    /\ frames' = <<NewFrame("parse", currPos)>>
    /\ UNCHANGED <<inputString, currPos, heap, error, originalTree,
                   firstDerivativeTree, secondDerivativeTree, leftToRight,
                   functions, lastCall, callLog, threads>>

StepParse ==
    /\ Inside("parse")
    /\ Resume(parse_step(inputString, heap, currPos, frames))

StepExpression ==
    /\ Inside("parseExpression")
    /\ Resume(parseExpression_step(inputString, heap, currPos, frames))

StepTerm ==
    /\ Inside("parseTerm")
    /\ Resume(parseTerm_step(inputString, heap, currPos, frames))

StepFactor ==
    /\ Inside("parseFactor")
    /\ Resume(parseFactor_step(inputString, heap, currPos, frames))

StepBasic ==
    /\ Inside("parseBasic")
    /\ Resume(parseBasic_step(inputString, heap, currPos, frames))

\* the texts parsed one call at a time
ParserTexts == TextsOver(Lexemes, MaxLexemes) \cup SampleTexts

ParserInit == Init /\ inputString \in ParserTexts

ParserNext ==
    \/ EnterParse
    \/ StepParse
    \/ StepExpression
    \/ StepTerm
    \/ StepFactor
    \/ StepBasic

\* the parser runs in one thread that nothing suspends: it takes its next
\* step as long as it has one
SpecParser == ParserInit /\ [][ParserNext]_vars /\ WF_vars(ParserNext)

\* ------------------------------------------------------------------------
\* Vocabulary of the properties
\* ------------------------------------------------------------------------
TwoXCubed == <<"2", " ", "*", " ", "x", "^", "3">>

\* parenthesis depth in front of s[i]
RECURSIVE DepthBefore(_, _)
DepthBefore(s, i) ==
    IF i = 1 THEN 0
    ELSE DepthBefore(s, i - 1)
         + (IF s[i - 1] = "(" THEN 1 ELSE IF s[i - 1] = ")" THEN -1 ELSE 0)

\* where one of the operators ops stands outside every parenthesis
TopLevel(s, ops) == {i \in 1..Len(s) : s[i] \in ops /\ DepthBefore(s, i) = 0}

\* the parts of s[from ..] between the positions cuts
RECURSIVE Pieces(_, _, _)
Pieces(s, cuts, from) ==
    LET later == {c \in cuts : c >= from}
    IN  IF later = {} THEN <<SubSeq(s, from, Len(s))>>
        ELSE LET c == CHOOSE m \in later : \A o \in later : m <= o
             IN  <<SubSeq(s, from, c - 1)>> \o Pieces(s, cuts, c + 1)

\* the operators at the positions cuts, in order
RECURSIVE Operators(_, _, _)
Operators(s, cuts, from) ==
    LET later == {c \in cuts : c >= from}
    IN  IF later = {} THEN <<>>
        ELSE LET c == CHOOSE m \in later : \A o \in later : m <= o
             IN  <<s[c]>> \o Operators(s, cuts, c + 1)

\* the text t is, on its own, one whole basic / factor / term
Whole(t, r) == r.err = "none" /\ skipWhitespace(t, r.currPos) = Len(t)

IsBasic(t) == Whole(t, parseBasic(t, <<>>, 0))

IsFactor(t) == Whole(t, parseFactor(t, <<>>, 0))

IsTerm(t) == Whole(t, parseTerm(t, <<>>, 0))

ResultTree(r) == TreeOf(r.heap, r.node)

BasicTree(t) == ResultTree(parseBasic(t, <<>>, 0))

FactorTree(t) == ResultTree(parseFactor(t, <<>>, 0))

TermTree(t) == ResultTree(parseTerm(t, <<>>, 0))

\* Power(b1, Power(b2, ... Power(b(n-1), bn)))
RECURSIVE RightChain(_)
RightChain(ts) ==
    IF Len(ts) = 1 THEN ts[1] ELSE Power(ts[1], RightChain(Tail(ts)))

\* BinaryOp(op(n-1), ... BinaryOp(op1, t1, t2) ..., tn)
RECURSIVE LeftChain(_, _)
LeftChain(ts, ops) ==
    IF Len(ts) = 1 THEN ts[1]
    ELSE BinaryOp(ops[Len(ops)],
                  LeftChain(SubSeq(ts, 1, Len(ts) - 1), SubSeq(ops, 1, Len(ops) - 1)),
                  ts[Len(ts)])

\* the tree deriv() builds for node n of the heap
DerivTree(h, n) ==
    LET d == deriv(h, n, leftToRight) IN TreeOf(d.heap, d.ptr)

TreeAlive == pc \in {"parsed", "derived1", "derived2", "returned"}

\* ------------------------------------------------------------------------
\* C1: differentiate(text) either fails with the parser's error and returns
\* no function, or returns three functions evaluating T0 = parse(text),
\* T1 = deriv(T0) and T2 = deriv(T1), after exactly one parse, one deriv of
\* T0 and one deriv of T1.
\* ------------------------------------------------------------------------
C1_ParserErrorOrThreeFunctions ==
    /\ pc = "failed" => error \in ParserErrors /\ functions = <<>>
    /\ pc = "returned" =>
          LET t0 == parse(inputString, <<>>, 0)
              t1 == deriv(t0.heap, t0.node, leftToRight)
              t2 == deriv(t1.heap, t1.ptr, leftToRight)
          IN  /\ Len(functions) = 3
              /\ TreeOf(heap, functions[1]) = TreeOf(t0.heap, t0.node)
              /\ TreeOf(heap, functions[2]) = TreeOf(t1.heap, t1.ptr)
              /\ TreeOf(heap, functions[3]) = TreeOf(t2.heap, t2.ptr)
              /\ callLog = <<<<"parse", 0>>, <<"deriv", functions[1]>>,
                             <<"deriv", functions[2]>>>>

\* ------------------------------------------------------------------------
\* C2: differentiate("2 * x^3") at x = 2+2i gives f = -32+32i, f' = 48i and
\* f'' = 24+24i.
\* ------------------------------------------------------------------------
C2_RoundTripValues ==
    (inputString = TwoXCubed /\ lastCall.fn # 0
        /\ lastCall.x = Value("num", 2, 2, 1, "")) =>
    lastCall.value =
        CASE lastCall.fn = 1 -> Value("num", -32, 32, 1, "")
          [] lastCall.fn = 2 -> Value("num", 0, 48, 1, "")
          [] lastCall.fn = 3 -> Value("num", 24, 24, 1, "")

C2_Witness ==
    /\ inputString = TwoXCubed
    /\ lastCall.fn = 3
    /\ lastCall.x = Value("num", 2, 2, 1, "")

\* ------------------------------------------------------------------------
\* C3: when parse returns a tree the cursor is at the end of the input, and
\* when a complete expression is followed by a character that is not
\* whitespace parse throws instead of returning a tree.
\* ------------------------------------------------------------------------
C3_ConsumesEntireInput ==
    LET e == parseExpression(inputString, <<>>, skipWhitespace(inputString, 0))
        rest == skipWhitespace(inputString, e.currPos)
    IN  /\ (pc # "start" /\ error \notin ParserErrors) =>
               currPos = Len(inputString)
        /\ (pc # "start" /\ e.err = "none" /\ rest < Len(inputString)) =>
               (pc = "failed" /\ error = "Unexpected" /\ originalTree = 0)

C3_Witness ==
    /\ pc = "parsed"
    /\ Len(inputString) > 1
    /\ inputString[Len(inputString)] = " "

\* ------------------------------------------------------------------------
\* C4: an identifier other than x is accepted only if it is sin, cos, tan,
\* cot or log followed by '('; every FunctionCall of a parsed tree has one of
\* these names and the 'unknown function' errors of eval and deriv are
\* unreachable.
\* ------------------------------------------------------------------------
C4_OnlyGrammarFunctions ==
    /\ TreeAlive =>
          \A n \in 1..Len(heap) :
              heap[n].kind = "Func" => heap[n].name \in FuncNames
    /\ error \notin {"Unknown func deriv", "Unknown func"}
    /\ lastCall.value.err # "Unknown func"

\* ------------------------------------------------------------------------
\* C5: "b1 ^ b2 ^ ... ^ bn" over basics parses to
\* Power(b1, Power(b2, ... Power(b(n-1), bn))); "2^3^2" and "2^(3^2)" both
\* yield Power(2, Power(3, 2)).
\* ------------------------------------------------------------------------
C5_RightAssociative ==
    LET cuts == TopLevel(inputString, {"^"})
        pieces == Pieces(inputString, cuts, 1)
        chain == Len(pieces) >= 2 /\ \A i \in 1..Len(pieces) : IsBasic(pieces[i])
    IN  /\ (pc # "start" /\ chain) =>
              /\ error \notin ParserErrors
              /\ TreeAlive =>
                    TreeOf(heap, originalTree) =
                        RightChain([i \in 1..Len(pieces) |-> BasicTree(pieces[i])])
        /\ (TreeAlive /\ inputString \in {<<"2", "^", "3", "^", "2">>,
                                         <<"2", "^", "(", "3", "^", "2", ")">>}) =>
              TreeOf(heap, originalTree) =
                  Power(Constant(<<2, 1>>),
                        Power(Constant(<<3, 1>>), Constant(<<2, 1>>)))

C5_Witness ==
    LET cuts == TopLevel(inputString, {"^"})
        pieces == Pieces(inputString, cuts, 1)
    IN  /\ pc = "parsed"
        /\ Len(pieces) >= 3
        /\ \A i \in 1..Len(pieces) : IsBasic(pieces[i])

\* ------------------------------------------------------------------------
\* C6: chains of + and - over terms, and chains of * and / over factors,
\* parse left-associatively, whatever their length.
\* ------------------------------------------------------------------------
C6_LeftAssociative ==
    LET addCuts == TopLevel(inputString, {"+", "-"})
        terms == Pieces(inputString, addCuts, 1)
        mulCuts == TopLevel(inputString, {"*", "/"})
        factors == Pieces(inputString, mulCuts, 1)
    IN  /\ (pc # "start" /\ Len(terms) >= 2
                /\ \A i \in 1..Len(terms) : IsTerm(terms[i])) =>
              /\ error \notin ParserErrors
              /\ TreeAlive =>
                    TreeOf(heap, originalTree) =
                        LeftChain([i \in 1..Len(terms) |-> TermTree(terms[i])],
                                  Operators(inputString, addCuts, 1))
        /\ (pc # "start" /\ Len(factors) >= 2
                /\ \A i \in 1..Len(factors) : IsFactor(factors[i])) =>
              /\ error \notin ParserErrors
              /\ TreeAlive =>
                    TreeOf(heap, originalTree) =
                        LeftChain([i \in 1..Len(factors) |-> FactorTree(factors[i])],
                                  Operators(inputString, mulCuts, 1))

C6_Witness ==
    LET addCuts == TopLevel(inputString, {"+", "-"})
        terms == Pieces(inputString, addCuts, 1)
        ops == Operators(inputString, addCuts, 1)
    IN  /\ pc = "parsed"
        /\ Len(terms) >= 3
        /\ \A i \in 1..Len(terms) : IsTerm(terms[i])
        /\ ops[1] # ops[2]

\* ------------------------------------------------------------------------
\* C7: for every Power(u, v) node, constant exponent or not, deriv returns
\* Power(u, v) * (deriv(v) * log(u) + v * (deriv(u) / u)).
\* ------------------------------------------------------------------------
PowerRule(u, v, du, dv) ==
    BinaryOp("*", Power(u, v),
             BinaryOp("+", BinaryOp("*", dv, FunctionCall(Log, u)),
                           BinaryOp("*", v, BinaryOp("/", du, u))))

PowerRuleAt(n) ==
    PowerRule(TreeOf(heap, heap[n].base), TreeOf(heap, heap[n].exp),
              DerivTree(heap, heap[n].base), DerivTree(heap, heap[n].exp))

OuterDerivative(name, inner) ==
    CASE name = Sin -> FunctionCall(Cos, inner)
      [] name = Cos ->
            BinaryOp("*", Constant(<<-1, 1>>), FunctionCall(Sin, inner))
      [] name = Tan ->
            BinaryOp("/", Constant(<<1, 1>>),
                     Power(FunctionCall(Cos, inner), Constant(<<2, 1>>)))
      [] name = Cot ->
            BinaryOp("*", Constant(<<-1, 1>>),
                     BinaryOp("/", Constant(<<1, 1>>),
                              Power(FunctionCall(Sin, inner), Constant(<<2, 1>>))))
      [] name = Log -> BinaryOp("/", Constant(<<1, 1>>), inner)

\* t is the product of a and b, in either order of the operands
IsProductOf(t, a, b) ==
    /\ t.kind = "Binary"
    /\ t.op = "*"
    /\ t.kids \in {<<a, b>>, <<b, a>>}

ChainRuleAt(t, n) ==
    IsProductOf(t, DerivTree(heap, heap[n].args[1]),
                OuterDerivative(heap[n].name, TreeOf(heap, heap[n].args[1])))

C8_ChainRule ==
    pc = "derived1" =>
        /\ \A n \in 1..Len(heap) :
              (heap[n].kind = "Func" /\ heap[n].name \in FuncNames) =>
                  ChainRuleAt(DerivTree(heap, n), n)
        /\ (heap[originalTree].kind = "Func"
                /\ heap[originalTree].name \in FuncNames) =>
              ChainRuleAt(TreeOf(heap, firstDerivativeTree), originalTree)

C8_Witness ==
    /\ pc = "derived1"
    /\ heap[originalTree].kind = "Func"
    /\ heap[originalTree].name = Cot
    /\ heap[heap[originalTree].args[1]].kind # "Var"

\* ------------------------------------------------------------------------
\* C9: deriv never mutates its input: every node that existed before a
\* deriv call is unchanged after it, and the result's root is a new node.
\* ------------------------------------------------------------------------
DerivStep == pc' \in {"derived1", "derived2"} /\ pc' # pc

C9_DerivNeverMutates ==
    [][DerivStep =>
          /\ Len(heap') > Len(heap)
          /\ \A n \in 1..Len(heap) : heap'[n] = heap[n]
          /\ (IF pc' = "derived1" THEN firstDerivativeTree'
              ELSE secondDerivativeTree') > Len(heap)
          /\ originalTree' = originalTree
          /\ TreeOf(heap', originalTree') = TreeOf(heap, originalTree)]_vars

\* a node of a derivative points at a node of the original tree
C9_Witness ==
    /\ pc = "derived2"
    /\ \E n \in (originalTree + 1)..Len(heap) :
          /\ heap[n].kind = "Binary"
          /\ heap[n].right \in 1..originalTree
          /\ heap[heap[n].right].kind # "Const"

\* ------------------------------------------------------------------------
\* C10: once differentiate has returned, no call of f, f' or f'' raises:
\* every operator and function name of the three trees is one the
\* evaluator handles.
\* ------------------------------------------------------------------------
C10_EvaluationNeverRaises ==
    /\ lastCall.fn # 0 => lastCall.value.k # "error"
    /\ pc = "returned" =>
          \A fn \in 1..3 : \A n \in Reachable(heap, functions[fn]) :
              /\ heap[n].kind = "Binary" => heap[n].op \in {"+", "-", "*", "/"}
              /\ heap[n].kind = "Func" => heap[n].name \in FuncNames

C10_Witness ==
    /\ lastCall.fn = 3
    /\ lastCall.value.k = "any"
    /\ \E n \in Reachable(heap, functions[3]) : heap[n].kind = "Func"

\* ------------------------------------------------------------------------
\* C11: a run of digits and dots that starts with a digit and does not match
\* digit+ ('.' digit+)? ("1.", "1.2.3") makes parse raise an error: parse
\* never returns a tree for a text that holds such a run.
\* ------------------------------------------------------------------------
\* num matches digit+ ('.' digit+)?
IsConstantLiteral(num) ==
    \/ DigitRun(num, 1) = Len(num)
    \/ /\ DigitRun(num, 1) + 1 <= Len(num)
       /\ num[DigitRun(num, 1) + 1] = "."
       /\ DigitRun(num, DigitRun(num, 1) + 2) >= 1
       /\ DigitRun(num, 1) + 1 + DigitRun(num, DigitRun(num, 1) + 2) = Len(num)

\* a maximal run of digits and dots of s starts with the digit at cursor p
StartsNumber(s, p) ==
    /\ isdigit(At(s, p))
    /\ p > 0 => ~(isdigit(At(s, p - 1)) \/ At(s, p - 1) = ".")

HasMalformedNumber(s) ==
    \E p \in 0..(Len(s) - 1) :
        /\ StartsNumber(s, p)
        /\ ~IsConstantLiteral(SubSeq(s, p + 1, NumberEnd(s, p)))

C11_MalformedNumberRaises ==
    pc \in {"parsed", "derived1", "derived2", "returned"}
        => ~HasMalformedNumber(inputString)

\* ------------------------------------------------------------------------
\* C12: evaluation never writes to tree nodes.  Whatever calls of the three
\* returned functions precede or overlap, in one thread or several, the
\* nodes and the three trees stay as they were returned, and each call that
\* ends yields what the same function yields for the same argument when it
\* is called alone.
\* ------------------------------------------------------------------------
C12_EvaluationNeverWrites ==
    [][pc = "returned" =>
          /\ heap' = heap
          /\ functions' = functions
          /\ \A fn \in 1..3 :
                TreeOf(heap', functions'[fn]) = TreeOf(heap, functions[fn])
          /\ \A t \in Threads :
                threads'[t].state = "done" =>
                    threads'[t].result =
                        eval(heap, functions[threads'[t].fn], threads'[t].x)]_vars

\* two threads are inside eval() of the same tree with different arguments,
\* and one of them has evaluated an operand
C12_Witness ==
    /\ threads[1].state = "running"
    /\ threads[2].state = "running"
    /\ threads[1].fn = 3
    /\ threads[2].fn = 3
    /\ threads[1].x # threads[2].x
    /\ Len(threads[1].stack) >= 2
    /\ \E i \in 1..Len(threads[2].stack) : threads[2].stack[i].vals # <<>>

\* ------------------------------------------------------------------------
\* C13: parse terminates on every input, with a tree or an error.  The
\* cursor never decreases and never exceeds the length of the input; every
\* turn of a loop and every re-entry into parseExpression or parseFactor
\* starts right after a character ('(' , '^' or an operator) was consumed;
\* the depth of the recursion is bounded by the length of the input.
\* ------------------------------------------------------------------------
\* the character consumed right before frame i was entered
ConsumedBefore(i) ==
    IF frames[i].entry = 0 THEN ""
    ELSE At(inputString, frames[i].entry - 1)

\* the frames of the function fn
FramesOf(fn) == {i \in 1..Len(frames) : frames[i].fn = fn}

CursorInRange == currPos \in 0..Len(inputString)

EntryAfterConsumed ==
    \A i \in 2..Len(frames) :
        /\ (frames[i].fn = "parseExpression" /\ frames[i - 1].fn = "parseBasic")
               => ConsumedBefore(i) = "("
        /\ (frames[i].fn = "parseFactor" /\ frames[i - 1].fn = "parseFactor")
               => ConsumedBefore(i) = "^"
        /\ frames[i - 1].at = "rightFactor"
               => ConsumedBefore(i) \in {"+", "-", "*", "/"}
        /\ \A j \in 1..(i - 1) :
               (frames[j].fn = frames[i].fn
                    /\ frames[i].fn \in {"parseExpression", "parseFactor"})
                   => frames[j].entry < frames[i].entry

DepthBounded ==
    /\ \A fn \in {"parseExpression", "parseTerm", "parseFactor", "parseBasic"} :
           Cardinality(FramesOf(fn)) <= Len(inputString) + 1
    /\ Cardinality(FramesOf("parse")) <= 1

\* what parse leaves is what the parse functions compute in one go
Outcome ==
    pc \in {"parsed", "failed"} =>
        LET r == parse(inputString, <<>>, 0)
        IN  /\ error = r.err
            /\ currPos = r.currPos
            /\ frames = <<>>
            /\ pc = "parsed" =>
                   TreeOf(heap, originalTree) = TreeOf(r.heap, r.node)

C13_ParseTerminates ==
    /\ <>(pc \in {"parsed", "failed"})
    /\ [](CursorInRange /\ EntryAfterConsumed /\ DepthBounded /\ Outcome)
    /\ [][currPos' >= currPos]_vars

\* parse has re-entered parseExpression and parseFactor: two activations of
\* each are on the stack, after a loop has turned
C13_Witness ==
    /\ pc = "parsing"
    /\ Cardinality(FramesOf("parseExpression")) >= 2
    /\ Cardinality(FramesOf("parseFactor")) >= 2
    /\ \E i \in 1..Len(frames) : frames[i].at = "rightFactor"

====
